---- MODULE Spec2Model ----
(***************************************************************************)
(* Model of the comment classification and removal engine of SoftCopyright *)
(* Pro (src/sofcrtpro/code_processor.py).                                  *)
(*                                                                         *)
(* A line of source text is a sequence of characters; a character is a     *)
(* one-character string, except the two non-ASCII characters of the model, *)
(* "zh" (a CJK ideograph such as U+4E2D) and "idsp" (U+3000, the           *)
(* ideographic space, which Python's str.split and str.strip treat as      *)
(* whitespace).  Indices into content are Python's, counted from 0:        *)
(* content[i] of the source is LineAt(content, i) here.                    *)
(***************************************************************************)
EXTENDS Integers, Sequences, FiniteSets, TLC

VARIABLES
    pc,                        \* position in the function being run
    content,                   \* the list of lines given to the function
    remove_english_comments,   \* parameter of remove_large_comments
    i,                         \* loop index of remove_large_comments
    in_comment_block,          \* first pass: a block is open
    block_start,               \* first pass: start of the open block, or -1
    in_py_triple_quotes,       \* first pass: inside a triple-quoted string
    in_c_multiline,            \* first pass: inside a /* ... */ comment
    comment_blocks,            \* first pass: recorded blocks <<start, end>>
    result,                    \* the list of lines being returned
    kept,                      \* the content index each line of result was copied from
    remove_ratio,              \* parameter of remove_single_comments_evenly
    indices_to_remove,         \* the sample drawn by remove_single_comments_evenly
    remove_large_comments_flag,   \* parameter of process_code_files
    remove_comments_ratio,        \* parameter of process_code_files
    remove_english_comments_flag, \* parameter of process_code_files
    merged_content,            \* process_code_files: the lines being redacted
    lines_per_page,            \* parameter of process_code_files
    pages,                     \* process_code_files: the pages returned
    text,                      \* argument of is_english_text
    verdict,                   \* value returned by is_english_text, "unset" before
    paragraphs,                \* process_document: the text of each paragraph of doc
    remove_filenames,          \* parameter of process_document
    in_large_comment,          \* process_document: a run of comment lines is open
    large_comment_lines,       \* process_document: the lines of the open run
    large_comment_start_index, \* process_document: index of its first line, or -1
    stats,                     \* process_document: the counters returned
    new_doc,                   \* process_document: paragraphs of the output document
    deleted_doc,               \* process_document: records of the deleted content
    has_deleted_content        \* process_document: something was deleted

vars == <<pc, content, remove_english_comments, i, in_comment_block, block_start,
          in_py_triple_quotes, in_c_multiline, comment_blocks, result, kept,
          remove_ratio, indices_to_remove, remove_large_comments_flag,
          remove_comments_ratio, remove_english_comments_flag, merged_content,
          lines_per_page, pages, text, verdict, paragraphs, remove_filenames,
          in_large_comment, large_comment_lines, large_comment_start_index, stats,
          new_doc, deleted_doc, has_deleted_content>>

(***************************************************************************)
(* Bounds of the model.                                                    *)
(***************************************************************************)
\* longest content given to remove_large_comments (besides the named examples)
MaxLines == 3
\* longest content given to remove_single_comments_evenly
MaxEvenLines == 3
\* largest ratio given to remove_single_comments_evenly
MaxRatio == 3
\* longest merged content and largest ratio given to process_code_files
MaxProcLines == 3
MaxProcRatio == 2
MaxPerPage == 2
\* texts given to is_english_text: all texts up to MaxTextLen characters over
\* TextAlphabet, and the shaped texts with up to MaxAscii ASCII letters and
\* MaxNonAscii CJK characters
MaxTextLen == 3
MaxAscii == 20
MaxNonAscii == 3
\* longest document and largest ratio given to process_document
MaxDocLines == 4
MaxDocRatio == 2

(***************************************************************************)
(* Characters and Python's string operations.                              *)
(***************************************************************************)
DQ == "\""
SQ == "'"
TDQ == <<DQ, DQ, DQ>>
TSQ == <<SQ, SQ, SQ>>

\* ord(char) < 128
IsAscii(c) == c \notin {"zh", "idsp"}

\* str.isspace of one character
IsSpace(c) == c \in {" ", "idsp"}

\* the character class of the regular expression of is_english_text (but the
\* backslash and the backquote, which no text of the model holds)
PunctDigits ==
    {"0", "1", "2", "3", "4", "5", "6", "7", "8", "9",
     "!", "@", "#", "$", "%", "^", "&", "*", "(", ")", "_", "+", "-", "=",
     "[", "]", "{", "}", ";", ":", DQ, SQ, ",", "<", ".", ">", "/", "?",
     "|", "~"}

RECURSIVE LStrip(_)
LStrip(s) ==
    IF s = <<>> THEN s
    ELSE IF IsSpace(Head(s)) THEN LStrip(Tail(s)) ELSE s

RECURSIVE RStrip(_)
RStrip(s) ==
    IF s = <<>> THEN s
    ELSE IF IsSpace(s[Len(s)]) THEN RStrip(SubSeq(s, 1, Len(s) - 1)) ELSE s

\* s.strip()
Strip(s) == RStrip(LStrip(s))

\* s.startswith(p)
StartsWith(s, p) == Len(s) >= Len(p) /\ SubSeq(s, 1, Len(p)) = p

\* s.endswith(p)
EndsWith(s, p) == Len(s) >= Len(p) /\ SubSeq(s, Len(s) - Len(p) + 1, Len(s)) = p

\* p in s
Contains(s, p) ==
    \E k \in 1..(Len(s) - Len(p) + 1) : SubSeq(s, k, k + Len(p) - 1) = p

\* s.count(p): occurrences that do not overlap, from the left
RECURSIVE Count(_, _)
Count(s, p) ==
    IF Len(s) < Len(p) THEN 0
    ELSE IF StartsWith(s, p) THEN 1 + Count(SubSeq(s, Len(p) + 1, Len(s)), p)
    ELSE Count(Tail(s), p)

\* s[a:]
From(s, a) == IF a >= Len(s) THEN <<>> ELSE SubSeq(s, a + 1, Len(s))

\* s[:-b]
ChopEnd(s, b) == IF b >= Len(s) THEN <<>> ELSE SubSeq(s, 1, Len(s) - b)

\* s[a:-b]
Slice(s, a, b) == IF a + b >= Len(s) THEN <<>> ELSE SubSeq(s, a + 1, Len(s) - b)

\* content[k], k counted from 0
LineAt(c, k) == c[k + 1]

\* the sum of a sequence of numbers
RECURSIVE SumSeq(_)
SumSeq(s) == IF s = <<>> THEN 0 ELSE Head(s) + SumSeq(Tail(s))

(***************************************************************************)
(* is_english_text                                                         *)
(***************************************************************************)
\* re.sub(r'[0-9...]', ' ', text)
ReSub(t) == [k \in 1..Len(t) |-> IF t[k] \in PunctDigits THEN " " ELSE t[k]]

\* text.split(): the maximal runs of characters that are not whitespace
RECURSIVE SplitFrom(_, _, _)
SplitFrom(t, cur, acc) ==
    IF t = <<>> THEN (IF cur = <<>> THEN acc ELSE Append(acc, cur))
    ELSE IF IsSpace(Head(t))
         THEN SplitFrom(Tail(t), <<>>, IF cur = <<>> THEN acc ELSE Append(acc, cur))
         ELSE SplitFrom(Tail(t), Append(cur, Head(t)), acc)

Split(t) == SplitFrom(t, <<>>, <<>>)

\* [word.strip() for word in text.split() if word.strip()]
Words(t) ==
    LET nonempty(w) == Strip(w) # <<>>
        ws == SelectSeq(Split(t), nonempty)
    IN  [k \in 1..Len(ws) |-> Strip(ws[k])]

\* the number of characters of the words for which the test holds
CountChars(ws, ascii) ==
    LET keep(c) == IsAscii(c) = ascii
    IN  SumSeq([k \in 1..Len(ws) |-> Len(SelectSeq(ws[k], keep))])

\* num / den > pnum / pden for den > 0 and pden > 0.  The source compares the
\* float num / den with the literal 0.1 or 0.9; the quotient of two integers
\* below 2^53 is rounded to the float nearest the exact ratio, as the literal
\* is, so the comparison of floats agrees with the comparison of the ratios.
RatioGreater(num, den, pnum, pden) == num * pden > pnum * den

\* EnglishDecision as it would be if the second threshold were >= 0.9
EnglishDecisionGe(english_chars, non_english_chars) ==
    IF non_english_chars > 0
       /\ RatioGreater(non_english_chars, english_chars + non_english_chars, 1, 10)
    THEN FALSE
    ELSE /\ english_chars + non_english_chars > 0
         /\ ~RatioGreater(9, 10, english_chars, english_chars + non_english_chars)

\* the two return statements after the count
EnglishDecision(english_chars, non_english_chars) ==
    LET total_chars == english_chars + non_english_chars
    IN  IF non_english_chars > 0 /\ RatioGreater(non_english_chars, total_chars, 1, 10)
        THEN FALSE
        ELSE total_chars > 0 /\ RatioGreater(english_chars, total_chars, 9, 10)

is_english_text(t) ==
    LET words == Words(ReSub(t))
    IN  IF words = <<>> THEN FALSE
        ELSE EnglishDecision(CountChars(words, TRUE), CountChars(words, FALSE))

(***************************************************************************)
(* is_comment_line and is_end_of_line_comment                              *)
(***************************************************************************)
is_comment_line(line) ==
    LET stripped_line == Strip(line)
    IN  IF stripped_line = <<>> THEN FALSE
        ELSE IF StartsWith(stripped_line, <<"#">>) THEN TRUE
        ELSE IF StartsWith(stripped_line, TDQ) \/ StartsWith(stripped_line, TSQ) THEN TRUE
        ELSE IF EndsWith(stripped_line, TDQ) \/ EndsWith(stripped_line, TSQ) THEN TRUE
        ELSE IF StartsWith(stripped_line, <<"/", "/">>) THEN TRUE
        ELSE IF StartsWith(stripped_line, <<"<", "!", "-", "-">>)
                /\ EndsWith(stripped_line, <<"-", "-", ">">>) THEN TRUE
        ELSE IF (StartsWith(stripped_line, <<"/", "*">>)
                 /\ EndsWith(stripped_line, <<"*", "/">>))
                \/ (StartsWith(stripped_line, <<"/", "*", "*">>)
                    /\ EndsWith(stripped_line, <<"*", "/">>)) THEN TRUE
        ELSE IF StartsWith(stripped_line, <<"*">>)
                /\ ~StartsWith(stripped_line, <<"*", "/">>) THEN TRUE
        ELSE FALSE

is_end_of_line_comment(line) ==
    LET stripped == Strip(line)
    IN  IF Contains(line, <<"#">>) /\ ~StartsWith(stripped, <<"#">>) THEN TRUE
        ELSE IF Contains(line, <<"/", "/">>) /\ ~StartsWith(stripped, <<"/", "/">>) THEN TRUE
        ELSE FALSE

(***************************************************************************)
(* remove_large_comments, first pass: the scanner that records the blocks. *)
(* The scanner state is the record of the five locals of the loop.         *)
(***************************************************************************)
ScanInit ==
    [in_comment_block |-> FALSE, block_start |-> -1,
     in_py_triple_quotes |-> FALSE, in_c_multiline |-> FALSE,
     comment_blocks |-> <<>>]

\* ClassifyLine as it would be if a line starting with a triple quote opened
\* the triple-quote state even when the line also closes the string
ClassifyLineOpens(st, line) ==
    IF st.in_py_triple_quotes
    THEN [is_comment |-> TRUE,
          in_py_triple_quotes |->
              ~(EndsWith(Strip(line), TDQ) \/ EndsWith(Strip(line), TSQ)),
          in_c_multiline |-> st.in_c_multiline]
    ELSE IF StartsWith(Strip(line), TDQ) \/ StartsWith(Strip(line), TSQ)
    THEN [is_comment |-> TRUE,
          in_py_triple_quotes |-> TRUE,
          in_c_multiline |-> st.in_c_multiline]
    ELSE IF st.in_c_multiline
    THEN [is_comment |-> TRUE,
          in_py_triple_quotes |-> st.in_py_triple_quotes,
          in_c_multiline |-> ~Contains(Strip(line), <<"*", "/">>)]
    ELSE IF StartsWith(Strip(line), <<"/", "*">>)
    THEN [is_comment |-> TRUE,
          in_py_triple_quotes |-> st.in_py_triple_quotes,
          in_c_multiline |-> ~Contains(Strip(line), <<"*", "/">>)]
    ELSE IF StartsWith(Strip(line), <<"#">>) \/ StartsWith(Strip(line), <<"/", "/">>)
    THEN [is_comment |-> TRUE,
          in_py_triple_quotes |-> st.in_py_triple_quotes,
          in_c_multiline |-> st.in_c_multiline]
    ELSE [is_comment |-> FALSE,
          in_py_triple_quotes |-> st.in_py_triple_quotes,
          in_c_multiline |-> st.in_c_multiline]

\* the if/elif chain that sets is_comment and the two continuation flags
ClassifyLine(st, line) ==
    LET stripped == Strip(line)
    IN  IF st.in_py_triple_quotes
        THEN [is_comment |-> TRUE,
              in_py_triple_quotes |->
                  ~(EndsWith(stripped, TDQ) \/ EndsWith(stripped, TSQ)),
              in_c_multiline |-> st.in_c_multiline]
        ELSE IF StartsWith(stripped, TDQ) \/ StartsWith(stripped, TSQ)
        THEN [is_comment |-> TRUE,
              in_py_triple_quotes |->
                  (~(EndsWith(stripped, TDQ) /\ Count(stripped, TDQ) > 1)
                   /\ ~(EndsWith(stripped, TSQ) /\ Count(stripped, TSQ) > 1)),
              in_c_multiline |-> st.in_c_multiline]
        ELSE IF st.in_c_multiline
        THEN [is_comment |-> TRUE,
              in_py_triple_quotes |-> st.in_py_triple_quotes,
              in_c_multiline |-> ~Contains(stripped, <<"*", "/">>)]
        ELSE IF StartsWith(stripped, <<"/", "*">>)
        THEN [is_comment |-> TRUE,
              in_py_triple_quotes |-> st.in_py_triple_quotes,
              in_c_multiline |-> ~Contains(stripped, <<"*", "/">>)]
        ELSE IF StartsWith(stripped, <<"#">>) \/ StartsWith(stripped, <<"/", "/">>)
        THEN [is_comment |-> TRUE,
              in_py_triple_quotes |-> st.in_py_triple_quotes,
              in_c_multiline |-> st.in_c_multiline]
        ELSE [is_comment |-> FALSE,
              in_py_triple_quotes |-> st.in_py_triple_quotes,
              in_c_multiline |-> st.in_c_multiline]

\* TrackBlock as it would be if a block were recorded up to the line that
\* ends it, that line included
TrackBlockInclusive(st, k, cls) ==
    IF cls.is_comment
    THEN IF ~st.in_comment_block
         THEN [st EXCEPT !.in_comment_block = TRUE, !.block_start = k,
                         !.in_py_triple_quotes = cls.in_py_triple_quotes,
                         !.in_c_multiline = cls.in_c_multiline]
         ELSE [st EXCEPT !.in_py_triple_quotes = cls.in_py_triple_quotes,
                         !.in_c_multiline = cls.in_c_multiline]
    ELSE IF st.in_comment_block
         THEN [st EXCEPT !.in_comment_block = FALSE,
                         !.comment_blocks = Append(@, <<st.block_start, k>>),
                         !.block_start = -1,
                         !.in_py_triple_quotes = cls.in_py_triple_quotes,
                         !.in_c_multiline = cls.in_c_multiline]
         ELSE [st EXCEPT !.in_py_triple_quotes = cls.in_py_triple_quotes,
                         !.in_c_multiline = cls.in_c_multiline]

\* the block bookkeeping at the end of the loop body
TrackBlock(st, k, cls) ==
    IF cls.is_comment
    THEN IF ~st.in_comment_block
         THEN [st EXCEPT !.in_comment_block = TRUE, !.block_start = k,
                         !.in_py_triple_quotes = cls.in_py_triple_quotes,
                         !.in_c_multiline = cls.in_c_multiline]
         ELSE [st EXCEPT !.in_py_triple_quotes = cls.in_py_triple_quotes,
                         !.in_c_multiline = cls.in_c_multiline]
    ELSE IF st.in_comment_block
         THEN [st EXCEPT !.in_comment_block = FALSE,
                         !.comment_blocks = Append(@, <<st.block_start, k - 1>>),
                         !.block_start = -1,
                         !.in_py_triple_quotes = cls.in_py_triple_quotes,
                         !.in_c_multiline = cls.in_c_multiline]
         ELSE [st EXCEPT !.in_py_triple_quotes = cls.in_py_triple_quotes,
                         !.in_c_multiline = cls.in_c_multiline]

\* ScanLine as it would be if end-of-line comment lines were not skipped
ScanLineNoSkip(st, k, line) == TrackBlock(st, k, ClassifyLine(st, line))

\* one iteration of the first loop, on line k
ScanLine(st, k, line) ==
    IF is_end_of_line_comment(line) THEN st
    ELSE TrackBlock(st, k, ClassifyLine(st, line))

\* after the first loop: a block still open ends at the last line
ScanFinish(st, n) ==
    IF st.in_comment_block
    THEN Append(st.comment_blocks, <<st.block_start, n - 1>>)
    ELSE st.comment_blocks

RECURSIVE ScanFrom(_, _, _)
ScanFrom(st, c, k) ==
    IF k >= Len(c) THEN st ELSE ScanFrom(ScanLine(st, k, LineAt(c, k)), c, k + 1)

\* the blocks the first pass records for content c
Blocks(c) == ScanFinish(ScanFrom(ScanInit, c, 0), Len(c))

(***************************************************************************)
(* remove_large_comments, second pass.                                     *)
(***************************************************************************)
\* the first block that holds index k, or <<>>
RECURSIVE FindBlock(_, _)
FindBlock(blocks, k) ==
    IF blocks = <<>> THEN <<>>
    ELSE IF Head(blocks)[1] <= k /\ k <= Head(blocks)[2] THEN Head(blocks)
    ELSE FindBlock(Tail(blocks), k)

\* the comment text taken from a block of one line
ExtractCommentText(line) ==
    LET stripped_line == Strip(line)
    IN  IF StartsWith(stripped_line, <<"#">>) THEN Strip(From(stripped_line, 1))
        ELSE IF StartsWith(stripped_line, <<"/", "/">>) THEN Strip(From(stripped_line, 2))
        ELSE IF StartsWith(stripped_line, <<"/", "*">>)
                /\ EndsWith(stripped_line, <<"*", "/">>)
             THEN Strip(Slice(stripped_line, 2, 2))
        ELSE IF StartsWith(stripped_line, TDQ) /\ EndsWith(stripped_line, TDQ)
             THEN Strip(Slice(stripped_line, 3, 3))
        ELSE IF StartsWith(stripped_line, TSQ) /\ EndsWith(stripped_line, TSQ)
             THEN Strip(Slice(stripped_line, 3, 3))
        ELSE <<>>

\* if s.startswith(p): s = s[len(p):]
DropPrefix(s, p) == IF StartsWith(s, p) THEN From(s, Len(p)) ELSE s

\* if s.endswith(p): s = s[:-len(p)]
DropSuffix(s, p) == IF EndsWith(s, p) THEN ChopEnd(s, Len(p)) ELSE s

\* if s.startswith('*') and not s.startswith('*/'): s = s[1:]
DropStar(s) ==
    IF StartsWith(s, <<"*">>) /\ ~StartsWith(s, <<"*", "/">>) THEN From(s, 1) ELSE s

\* the chain of independent ifs that strips the markers of one line of a
\* block, innermost first: the two triple quotes at each end, //, #, /*, */
\* and a leading *
StripMarkers(line) ==
    DropStar(
      DropSuffix(
        DropPrefix(
          DropPrefix(
            DropPrefix(
              DropSuffix(
                DropPrefix(
                  DropSuffix(
                    DropPrefix(Strip(line), TDQ),
                    TDQ),
                  TSQ),
                TSQ),
              <<"/", "/">>),
            <<"#">>),
          <<"/", "*">>),
        <<"*", "/">>))

\* block_text: the stripped lines start..end, each followed by a space
RECURSIVE BlockText(_, _, _)
BlockText(c, start, end) ==
    IF start > end THEN <<>>
    ELSE StripMarkers(LineAt(c, start)) \o <<" ">> \o BlockText(c, start + 1, end)

\* SingleBranch as it would be if the English test were left out: every
\* comment of one line with some text is dropped
SingleBranchDropAll(line, english, k) ==
    IF english /\ ExtractCommentText(line) # <<>>
    THEN [i |-> k + 1, append |-> FALSE]
    ELSE [i |-> k + 1, append |-> TRUE]

\* the branch for a block of one line, at index k: the next index, and
\* whether content[k] is appended to result
SingleBranch(line, english, k) ==
    IF english
    THEN LET comment_text == ExtractCommentText(line)
         IN  IF comment_text # <<>> /\ is_english_text(comment_text)
             THEN [i |-> k + 1, append |-> FALSE]
             ELSE [i |-> k + 1, append |-> TRUE]
    ELSE [i |-> k + 1, append |-> TRUE]

\* LargeBranch as it would be if a block whose text is not English were
\* kept when the English removal is requested
LargeBranchRetain(c, start, end, english, k) ==
    IF english /\ ~(Strip(BlockText(c, start, end)) # <<>>
                    /\ is_english_text(Strip(BlockText(c, start, end))))
    THEN [i |-> k + 1, append |-> TRUE]
    ELSE [i |-> end + 1, append |-> FALSE]

\* LargeBranch as it would be if only the first line of a block of two lines
\* or more were dropped
LargeBranchHead(c, start, end, english, k) ==
    IF k = start
    THEN [i |-> k + 1, append |-> FALSE]
    ELSE [i |-> k + 1, append |-> TRUE]

\* the branch for a block start..end of two lines or more, at index k: with
\* the English test or without it, the source moves to block_end + 1 and
\* appends nothing
LargeBranch(c, start, end, english, k) ==
    IF english
    THEN LET block_text == BlockText(c, start, end)
         IN  IF Strip(block_text) # <<>> /\ is_english_text(Strip(block_text))
             THEN [i |-> end + 1, append |-> FALSE]
             ELSE [i |-> end + 1, append |-> FALSE]
    ELSE [i |-> end + 1, append |-> FALSE]

\* one iteration of the while loop at index k
EmitStep(c, blocks, english, k) ==
    LET line == LineAt(c, k)
        blk == FindBlock(blocks, k)
    IN  IF is_end_of_line_comment(line) THEN [i |-> k + 1, append |-> TRUE]
        ELSE IF blk = <<>> THEN [i |-> k + 1, append |-> TRUE]
        ELSE IF blk[2] - blk[1] + 1 = 1 THEN SingleBranch(line, english, k)
        ELSE LargeBranch(c, blk[1], blk[2], english, k)

\* the indices of content whose lines the second pass appends from index k
\* on, in order; r is the outcome of the iteration at k
RECURSIVE EmitFrom(_, _, _, _), EmitAfter(_, _, _, _, _)
EmitFrom(c, blocks, english, k) ==
    IF k >= Len(c) THEN <<>>
    ELSE EmitAfter(c, blocks, english, k, EmitStep(c, blocks, english, k))

EmitAfter(c, blocks, english, k, r) ==
    (IF r.append THEN <<k>> ELSE <<>>) \o EmitFrom(c, blocks, english, r.i)

\* the indices kept by remove_large_comments(c, english)
LargeKept(c, english) ==
    IF c = <<>> THEN <<>> ELSE EmitFrom(c, Blocks(c), english, 0)

\* remove_large_comments(c, english)
remove_large_comments(c, english) ==
    LET ks == LargeKept(c, english)
    IN  [k \in 1..Len(ks) |-> LineAt(c, ks[k])]

(***************************************************************************)
(* remove_single_comments_evenly                                           *)
(***************************************************************************)
\* the ratio used when remove_ratio <= 0
DefaultRatio == 3

\* comment_indices: the candidates of the random deletion
CommentIndices(c) ==
    {k \in 0..(Len(c) - 1) :
        /\ is_comment_line(LineAt(c, k))
        /\ LET prev_is_comment == k > 0 /\ is_comment_line(LineAt(c, k - 1))
               next_is_comment == k < Len(c) - 1 /\ is_comment_line(LineAt(c, k + 1))
           IN  ~(prev_is_comment /\ next_is_comment)}

\* CommentsToRemove as it would be if the division rounded up
CommentsToRemoveCeil(c, ratio) ==
    (Cardinality(CommentIndices(c)) + (IF ratio <= 0 THEN DefaultRatio ELSE ratio) - 1)
        \div (IF ratio <= 0 THEN DefaultRatio ELSE ratio)

\* CommentsToRemove as it would be if a ratio <= 0 removed nothing
CommentsToRemoveNoDefault(c, ratio) ==
    IF ratio <= 0 THEN 0 ELSE Cardinality(CommentIndices(c)) \div ratio

\* comments_to_remove
CommentsToRemove(c, ratio) ==
    Cardinality(CommentIndices(c)) \div (IF ratio <= 0 THEN DefaultRatio ELSE ratio)

\* the values set(random.sample(comment_indices, comments_to_remove)) can
\* take, or the empty set when nothing is to be removed
Samples(c, ratio) ==
    IF CommentsToRemove(c, ratio) > 0 /\ CommentIndices(c) # {}
    THEN {S \in SUBSET CommentIndices(c) : Cardinality(S) = CommentsToRemove(c, ratio)}
    ELSE {{}}

\* the indices 0..n-1 outside S, in increasing order
RECURSIVE IndicesOutside(_, _, _)
IndicesOutside(k, n, S) ==
    IF k >= n THEN <<>>
    ELSE (IF k \in S THEN <<>> ELSE <<k>>) \o IndicesOutside(k + 1, n, S)

\* the indices the last loop keeps when S is the sample
EvenlyKept(c, S) == IndicesOutside(0, Len(c), S)

\* the lines of c at the indices ks
Pick(c, ks) == [k \in 1..Len(ks) |-> LineAt(c, ks[k])]

(***************************************************************************)
(* split_into_pages                                                        *)
(***************************************************************************)
RECURSIVE PagesFrom(_, _, _)
PagesFrom(c, k, n) ==
    IF k >= Len(c) THEN <<>>
    ELSE LET end == IF k + n < Len(c) THEN k + n ELSE Len(c)
         IN  <<SubSeq(c, k + 1, end)>> \o PagesFrom(c, k + n, n)

split_into_pages(c, n) == PagesFrom(c, 0, n)

(***************************************************************************)
(* The lines and the contents the functions are run on.                    *)
(***************************************************************************)
HashEn      == <<"#", " ", "a">>                      \* # a
HashZh      == <<"#", " ", "zh">>                     \* a comment in Chinese
HashBare    == <<"#">>                                \* #
Code        == <<"x">>                                \* x
CodeEol     == <<"x", " ", "#", " ", "a">>            \* x # a
TripleDQ    == TDQ                                    \* three double quotes
DocOneLine  == TDQ \o <<"a">> \o TDQ                  \* a docstring of one line
COpen       == <<"/", "*", " ", "a">>                 \* /* a
CClose      == <<"a", " ", "*", "/">>                 \* a */
COneLine    == <<"/", "*", " ", "a", " ", "*", "/">>  \* /* a */
SlashEn     == <<"/", "/", " ", "a">>                 \* // a
HashUrl     == <<"#", " ", "a", "/", "/", "b">>       \* # a//b
CodeEolTriple == <<"x", " ", "#", " ">> \o TSQ        \* x # and three single quotes
TripleSQ    == TSQ                                    \* three single quotes
Star        == <<"*", " ", "a">>                      \* * a
Html        == <<"<", "!", "-", "-", "a", "-", "-", ">">>   \* <!--a-->
DocOneLineSQ == TSQ \o <<"a">> \o TSQ                 \* the same docstring in single quotes

LargeVocab == {HashEn, HashZh, HashBare, Code, CodeEol, TripleDQ, DocOneLine,
               COpen, CClose, COneLine, SlashEn, HashUrl, CodeEolTriple, TripleSQ,
               Star, Html, DocOneLineSQ}

EvenVocab == {HashEn, Code, CodeEol, HashUrl, CodeEolTriple, TripleDQ}

ProcVocab == {HashEn, HashZh, Code, CodeEol}

\* all contents of at most n lines of V
Contents(V, n) == UNION {[1..k -> V] : k \in 0..n}

\* the docstring example: three quotes, a, b, c, three quotes, code
ExampleDocstring ==
    <<TDQ, <<"a">>, <<"b">>, <<"c">>, TDQ, <<"c", "o", "d", "e">>>>

\* two comment lines in Chinese, then 'def f():' and '    pass'
ExampleChinese ==
    <<<<"#", " ", "zh">>, <<"#", " ", "zh", "zh">>, <<"d", "e", "f">>,
      <<" ", " ", "p">>>>

\* nine comment lines, each followed by a line of code
ExampleNine ==
    [k \in 1..18 |-> IF k % 2 = 1 THEN HashEn ELSE Code]

\* code with a trailing comment that holds */ and ends with three single quotes
EolBoth == <<"x", " ", "#", " ", "*", "/">> \o TSQ

\* a /* and a triple quote are opened, then comes the line above, then code
ExampleEolInside == <<COpen, TripleDQ, EolBoth, Code>>

LargeContents ==
    Contents(LargeVocab, MaxLines)
        \cup {ExampleDocstring, ExampleChinese, ExampleEolInside}

EvenContents == Contents(EvenVocab, MaxEvenLines) \cup {ExampleNine}

\* three comment lines, each a block of one line, with code between them
ExampleThreeSingles == <<HashEn, Code, HashEn, Code, HashEn>>

ProcContents == Contents(ProcVocab, MaxProcLines) \cup {ExampleThreeSingles}

(***************************************************************************)
(* Groups of variables, and the scanner state held in the variables.       *)
(***************************************************************************)
scanVars == <<in_comment_block, block_start, in_py_triple_quotes, in_c_multiline,
              comment_blocks>>
largeVars == <<content, remove_english_comments>>
evenVars == <<remove_ratio, indices_to_remove>>
procVars == <<remove_large_comments_flag, remove_comments_ratio,
              remove_english_comments_flag, merged_content, lines_per_page, pages>>
englishVars == <<text, verdict>>

ScanState ==
    [in_comment_block |-> in_comment_block, block_start |-> block_start,
     in_py_triple_quotes |-> in_py_triple_quotes, in_c_multiline |-> in_c_multiline,
     comment_blocks |-> comment_blocks]

SetScanState(st) ==
    /\ in_comment_block' = st.in_comment_block
    /\ block_start' = st.block_start
    /\ in_py_triple_quotes' = st.in_py_triple_quotes
    /\ in_c_multiline' = st.in_c_multiline
    /\ comment_blocks' = st.comment_blocks

\* the variables of the functions that are not running
IdleLocals ==
    /\ i = 0
    /\ in_comment_block = FALSE
    /\ block_start = -1
    /\ in_py_triple_quotes = FALSE
    /\ in_c_multiline = FALSE
    /\ comment_blocks = <<>>
    /\ result = <<>>
    /\ kept = <<>>
IdleEven ==
    /\ remove_ratio = 0
    /\ indices_to_remove = {}
IdleProc ==
    /\ remove_large_comments_flag = FALSE
    /\ remove_comments_ratio = 0
    /\ remove_english_comments_flag = FALSE
    /\ merged_content = <<>>
    /\ lines_per_page = 0
    /\ pages = <<>>
IdleEnglish ==
    /\ text = <<>>
    /\ verdict = "unset"

\* the counters of process_document before the first paragraph
stats0 ==
    [total_lines |-> 0, deleted_filenames |-> 0, deleted_large_comments |-> 0,
     deleted_english_comments |-> 0, deleted_random_comments |-> 0,
     remaining_lines |-> 0]

trackVars == <<in_large_comment, large_comment_lines, large_comment_start_index>>
docVars == <<paragraphs, remove_filenames, trackVars, stats, new_doc, deleted_doc,
             has_deleted_content>>

IdleDoc ==
    /\ paragraphs = <<>>
    /\ remove_filenames = FALSE
    /\ in_large_comment = FALSE
    /\ large_comment_lines = <<>>
    /\ large_comment_start_index = -1
    /\ stats = stats0
    /\ new_doc = <<>>
    /\ deleted_doc = <<>>
    /\ has_deleted_content = FALSE

(***************************************************************************)
(* remove_large_comments(content, remove_english_comments), step by step.  *)
(***************************************************************************)
InitLarge ==
    /\ pc = "large_call"
    /\ content \in LargeContents
    /\ remove_english_comments \in BOOLEAN
    /\ IdleLocals
    /\ IdleEven
    /\ IdleProc
    /\ IdleEnglish
    /\ IdleDoc

\* if not content: return []
LargeEmpty ==
    /\ pc = "large_call"
    /\ content = <<>>
    /\ pc' = "large_done"
    /\ result' = <<>>
    /\ kept' = <<>>
    /\ UNCHANGED <<docVars, i, scanVars, largeVars, evenVars, procVars, englishVars>>

\* the locals are set and the first loop begins
LargeEnter ==
    /\ pc = "large_call"
    /\ content # <<>>
    /\ pc' = "large_scan"
    /\ i' = 0
    /\ result' = <<>>
    /\ kept' = <<>>
    /\ SetScanState(ScanInit)
    /\ UNCHANGED <<docVars, largeVars, evenVars, procVars, englishVars>>

\* one iteration of the first loop
LargeScan ==
    /\ pc = "large_scan"
    /\ i < Len(content)
    /\ SetScanState(ScanLine(ScanState, i, LineAt(content, i)))
    /\ i' = i + 1
    /\ UNCHANGED <<docVars, pc, result, kept, largeVars, evenVars, procVars, englishVars>>

\* the first loop is over: the open block is recorded, the second loop begins
LargeScanEnd ==
    /\ pc = "large_scan"
    /\ i >= Len(content)
    /\ comment_blocks' = ScanFinish(ScanState, Len(content))
    /\ i' = 0
    /\ pc' = "large_emit"
    /\ UNCHANGED <<docVars, in_comment_block, block_start, in_py_triple_quotes, in_c_multiline,
                   result, kept, largeVars, evenVars, procVars, englishVars>>

\* ApplyEmit as it would be if a line kept were appended twice
ApplyEmitTwice(r) ==
    /\ i' = r.i
    /\ result' = IF r.append
                 THEN Append(Append(result, LineAt(content, i)), LineAt(content, i))
                 ELSE result
    /\ kept' = IF r.append THEN Append(Append(kept, i), i) ELSE kept

\* the effect of one iteration of the second loop with outcome r
ApplyEmit(r) ==
    /\ i' = r.i
    /\ result' = IF r.append THEN Append(result, LineAt(content, i)) ELSE result
    /\ kept' = IF r.append THEN Append(kept, i) ELSE kept

\* one iteration of the second loop
LargeEmit ==
    /\ pc = "large_emit"
    /\ i < Len(content)
    /\ ApplyEmit(EmitStep(content, comment_blocks, remove_english_comments, i))
    /\ UNCHANGED <<docVars, pc, scanVars, largeVars, evenVars, procVars, englishVars>>

\* return result
LargeReturn ==
    /\ pc = "large_emit"
    /\ i >= Len(content)
    /\ pc' = "large_done"
    /\ UNCHANGED <<docVars, i, result, kept, scanVars, largeVars, evenVars, procVars, englishVars>>

NextLarge ==
    \/ LargeEmpty
    \/ LargeEnter
    \/ LargeScan
    \/ LargeScanEnd
    \/ LargeEmit
    \/ LargeReturn

SpecLarge == InitLarge /\ [][NextLarge]_vars

(***************************************************************************)
(* remove_single_comments_evenly(content, remove_ratio): one call.  The    *)
(* random sample is any subset of the candidates of the size computed.     *)
(***************************************************************************)
Ratios == (0 - 1)..MaxRatio

InitEvenly ==
    /\ pc = "evenly_call"
    /\ content \in EvenContents
    /\ remove_english_comments = FALSE
    /\ remove_ratio \in Ratios
    /\ indices_to_remove = {}
    /\ IdleLocals
    /\ IdleProc
    /\ IdleEnglish
    /\ IdleDoc

Evenly ==
    /\ pc = "evenly_call"
    /\ \E S \in Samples(content, remove_ratio) :
          /\ indices_to_remove' = S
          /\ kept' = EvenlyKept(content, S)
          /\ result' = Pick(content, EvenlyKept(content, S))
    /\ pc' = "evenly_done"
    /\ UNCHANGED <<docVars, i, scanVars, largeVars, remove_ratio, procVars, englishVars>>

NextEvenly == Evenly

SpecEvenly == InitEvenly /\ [][NextEvenly]_vars

(***************************************************************************)
(* process_code_files after merge_code_files has returned: content is the  *)
(* merged list, merged_content the list as the steps rewrite it, and kept  *)
(* the index in content of each line of merged_content.                    *)
(***************************************************************************)
\* 0, 1, ..., n-1
Identity(n) == [k \in 1..n |-> k - 1]

InitProcess ==
    /\ pc = "proc_large"
    /\ content \in ProcContents
    /\ merged_content = content
    /\ kept = Identity(Len(content))
    /\ remove_large_comments_flag \in BOOLEAN
    /\ remove_english_comments_flag \in BOOLEAN
    /\ remove_comments_ratio \in 0..MaxProcRatio
    /\ lines_per_page \in 1..MaxPerPage
    /\ pages = <<>>
    /\ remove_english_comments = FALSE
    /\ i = 0
    /\ in_comment_block = FALSE
    /\ block_start = -1
    /\ in_py_triple_quotes = FALSE
    /\ in_c_multiline = FALSE
    /\ comment_blocks = <<>>
    /\ result = <<>>
    /\ IdleEven
    /\ IdleEnglish
    /\ IdleDoc

\* if remove_large_comments_flag: merged_content = remove_large_comments(...)
ProcLarge ==
    /\ pc = "proc_large"
    /\ IF remove_large_comments_flag
       THEN /\ merged_content' =
                   remove_large_comments(merged_content, remove_english_comments_flag)
            /\ kept' = Pick(kept, LargeKept(merged_content, remove_english_comments_flag))
       ELSE UNCHANGED <<merged_content, kept>>
    /\ pc' = "proc_evenly"
    /\ UNCHANGED <<docVars, i, scanVars, largeVars, result, evenVars, remove_large_comments_flag,
                   remove_comments_ratio, remove_english_comments_flag, lines_per_page,
                   pages, englishVars>>

\* ProcEvenly as it would be if remove_single_comments_evenly were called
\* whatever the ratio, a ratio of 0 falling back to the default
ProcEvenlyAlways ==
    /\ pc = "proc_evenly"
    /\ \E S \in Samples(merged_content, remove_comments_ratio) :
          /\ indices_to_remove' = S
          /\ merged_content' = Pick(merged_content, EvenlyKept(merged_content, S))
          /\ kept' = Pick(kept, EvenlyKept(merged_content, S))
    /\ pc' = "proc_pages"
    /\ UNCHANGED <<docVars, i, scanVars, largeVars, result, remove_ratio, remove_large_comments_flag,
                   remove_comments_ratio, remove_english_comments_flag, lines_per_page,
                   pages, englishVars>>

\* ProcEvenly as it would be if the sample were drawn for the merged lines as
\* they were before the step of remove_large_comments
ProcEvenlyOriginal ==
    /\ pc = "proc_evenly"
    /\ IF remove_comments_ratio > 0
       THEN \E S \in Samples(content, remove_comments_ratio) :
               /\ indices_to_remove' = S
               /\ merged_content' = Pick(merged_content, EvenlyKept(merged_content, S))
               /\ kept' = Pick(kept, EvenlyKept(merged_content, S))
       ELSE UNCHANGED <<merged_content, kept, indices_to_remove>>
    /\ pc' = "proc_pages"
    /\ UNCHANGED <<docVars, i, scanVars, largeVars, result, remove_ratio, remove_large_comments_flag,
                   remove_comments_ratio, remove_english_comments_flag, lines_per_page,
                   pages, englishVars>>

\* if remove_comments_ratio > 0: merged_content = remove_single_comments_evenly(...)
ProcEvenly ==
    /\ pc = "proc_evenly"
    /\ IF remove_comments_ratio > 0
       THEN \E S \in Samples(merged_content, remove_comments_ratio) :
               /\ indices_to_remove' = S
               /\ merged_content' = Pick(merged_content, EvenlyKept(merged_content, S))
               /\ kept' = Pick(kept, EvenlyKept(merged_content, S))
       ELSE UNCHANGED <<merged_content, kept, indices_to_remove>>
    /\ pc' = "proc_pages"
    /\ UNCHANGED <<docVars, i, scanVars, largeVars, result, remove_ratio, remove_large_comments_flag,
                   remove_comments_ratio, remove_english_comments_flag, lines_per_page,
                   pages, englishVars>>

\* pages = split_into_pages(merged_content, lines_per_page); return
ProcPages ==
    /\ pc = "proc_pages"
    /\ pages' = split_into_pages(merged_content, lines_per_page)
    /\ pc' = "proc_done"
    /\ UNCHANGED <<docVars, i, scanVars, largeVars, result, kept, evenVars,
                   remove_large_comments_flag, remove_comments_ratio,
                   remove_english_comments_flag, merged_content, lines_per_page,
                   englishVars>>

NextProcess ==
    \/ ProcLarge
    \/ ProcEvenly
    \/ ProcPages

SpecProcess == InitProcess /\ [][NextProcess]_vars

(***************************************************************************)
(* is_english_text(text): one call.                                        *)
(***************************************************************************)
TextAlphabet == {"a", "zh", " ", "1", "#", "idsp"}

\* c repeated n times
Rep(c, n) == [k \in 1..n |-> c]

\* a ASCII letters and n Chinese characters, as two words, as one word, and
\* behind a comment marker with a digit between them
ShapedTexts ==
    UNION {{Rep("a", a) \o <<" ">> \o Rep("zh", n),
            Rep("zh", n) \o Rep("a", a),
            <<"#", " ">> \o Rep("a", a) \o <<"1">> \o Rep("zh", n)} :
           a \in 0..MaxAscii, n \in 0..MaxNonAscii}

\* a text of test_is_english_text (each "zh" a Chinese character)
TextPureEnglish ==
    <<"T", "h", "i", "s", " ", "i", "s", " ", "p", "u", "r", "e", " ", "E",
      "n", "g", "l", "i", "s", "h", " ", "t", "e", "x", "t">>

\* a text of test_is_english_text (each "zh" a Chinese character)
TextPureChinese ==
    <<"zh", "zh", "zh", "zh", "zh", "zh", "zh">>

\* a text of test_is_english_text (each "zh" a Chinese character)
TextMixedShort ==
    <<"T", "h", "i", "s", " ", "i", "s", " ", "m", "i", "x", "e", "d", " ",
      "t", "e", "x", "t", " ", "w", "i", "t", "h", " ", "zh", "zh">>

\* a text of test_is_english_text (each "zh" a Chinese character)
TextMixed80 ==
    <<"8", "0", "%", " ", "E", "n", "g", "l", "i", "s", "h", " ", "t", "e",
      "x", "t", " ", "w", "i", "t", "h", " ", "s", "o", "m", "e", " ", "zh",
      "zh", "zh", "zh">>

\* a text of test_is_english_text (each "zh" a Chinese character)
TextMixed20 ==
    <<"2", "0", "%", " ", "zh", "zh", " ", "w", "i", "t", "h", " ", "m", "o",
      "s", "t", "l", "y", " ", "zh", "zh", "zh", "zh", "zh", "zh">>

\* a text of test_is_english_text (each "zh" a Chinese character)
TextHashEnglish ==
    <<"#", " ", "T", "h", "i", "s", " ", "i", "s", " ", "a", " ", "c", "o",
      "m", "m", "e", "n", "t">>

\* a text of test_is_english_text (each "zh" a Chinese character)
TextHashChinese ==
    <<"#", " ", "zh", "zh", "zh", "zh", "zh", "zh">>

\* a text of test_is_english_text (each "zh" a Chinese character)
TextHashMixed ==
    <<"#", " ", "T", "h", "i", "s", " ", "i", "s", " ", "a", " ", "c", "o",
      "m", "m", "e", "n", "t", " ", "w", "i", "t", "h", " ", "zh", "zh">>

\* a text of test_is_english_text (each "zh" a Chinese character)
TextHashMixedZh ==
    <<"#", " ", "zh", "zh", "zh", "zh", "zh", "zh", "E", "n", "g", "l", "i",
      "s", "h", "zh", "zh", "zh">>

ExampleTexts ==
    {TextPureEnglish, TextPureChinese, TextMixedShort, TextMixed80, TextMixed20,
     TextHashEnglish, TextHashChinese, TextHashMixed, TextHashMixedZh, <<>>}

Texts == Contents(TextAlphabet, MaxTextLen) \cup ShapedTexts \cup ExampleTexts

InitEnglish ==
    /\ pc = "english_call"
    /\ text \in Texts
    /\ verdict = "unset"
    /\ content = <<>>
    /\ remove_english_comments = FALSE
    /\ IdleLocals
    /\ IdleEven
    /\ IdleProc
    /\ IdleDoc

EnglishCall ==
    /\ pc = "english_call"
    /\ verdict' = is_english_text(text)
    /\ pc' = "english_done"
    /\ UNCHANGED <<docVars, i, scanVars, largeVars, result, kept, evenVars, procVars, text>>

NextEnglish == EnglishCall

SpecEnglish == InitEnglish /\ [][NextEnglish]_vars

(***************************************************************************)
(* process_document (src/sofcrtpro/document_processor.py), from the point  *)
(* where the input document has been read: paragraphs holds the text of    *)
(* each paragraph of doc, new_doc and deleted_doc what has been added to   *)
(* the two documents written, kept the index of each paragraph of new_doc. *)
(* The parameter remove_large_comments of process_document is the variable *)
(* remove_large_comments_flag here, the name being that of the function of *)
(* code_processor.py in this module.                                       *)
(***************************************************************************)
common_extensions ==
    {<<".", "p", "y">>, <<".", "j", "a", "v", "a">>, <<".", "c">>,
     <<".", "c", "p", "p">>, <<".", "c", "s">>, <<".", "j", "s">>,
     <<".", "h", "t", "m", "l">>, <<".", "c", "s", "s">>, <<".", "p", "h", "p">>,
     <<".", "g", "o">>, <<".", "r", "b">>, <<".", "s", "w", "i", "f", "t">>}

is_filename_line(line) ==
    IF Strip(line) = <<>> THEN FALSE
    ELSE \E ext \in common_extensions : EndsWith(Strip(line), ext)

\* is_comment_line of document_processor.py
doc_is_comment_line(line) ==
    LET stripped == Strip(line)
    IN  IF stripped = <<>> THEN FALSE
        ELSE IF StartsWith(stripped, <<"#">>) THEN TRUE
        ELSE IF StartsWith(stripped, <<"/", "/">>) THEN TRUE
        ELSE IF StartsWith(stripped, TDQ) \/ StartsWith(stripped, TSQ) THEN TRUE
        ELSE IF EndsWith(stripped, TDQ) \/ EndsWith(stripped, TSQ) THEN TRUE
        ELSE IF StartsWith(stripped, <<"<", "!", "-", "-">>)
                /\ EndsWith(stripped, <<"-", "-", ">">>) THEN TRUE
        ELSE IF (StartsWith(stripped, <<"/", "*">>)
                 /\ EndsWith(stripped, <<"*", "/">>))
                \/ (StartsWith(stripped, <<"/", "*", "*">>)
                    /\ EndsWith(stripped, <<"*", "/">>)) THEN TRUE
        ELSE IF StartsWith(stripped, <<"*">>)
                /\ ~StartsWith(stripped, <<"*", "/">>) THEN TRUE
        ELSE FALSE

\* the comment text process_document takes from a comment line
DocCommentText(line) ==
    LET stripped == Strip(line)
    IN  IF StartsWith(stripped, <<"#">>) THEN Strip(From(stripped, 1))
        ELSE IF StartsWith(stripped, <<"/", "/">>) THEN Strip(From(stripped, 2))
        ELSE IF StartsWith(stripped, <<"/", "*">>) /\ EndsWith(stripped, <<"*", "/">>)
             THEN Strip(Slice(stripped, 2, 2))
        ELSE IF StartsWith(stripped, TDQ) /\ EndsWith(stripped, TDQ)
             THEN Strip(Slice(stripped, 3, 3))
        ELSE IF StartsWith(stripped, TSQ) /\ EndsWith(stripped, TSQ)
             THEN Strip(Slice(stripped, 3, 3))
        ELSE <<>>

\* the test that deletes a comment line as an English comment
DocEnglishDrop(line, english) ==
    /\ english
    /\ ~is_end_of_line_comment(line)
    /\ DocCommentText(line) # <<>>
    /\ is_english_text(DocCommentText(line))

\* next_is_comment at paragraph k
NextIsComment(ps, k) ==
    k + 1 < Len(ps) /\ doc_is_comment_line(LineAt(ps, k + 1))

\* the tracker of large comments after the comment line at paragraph k, and
\* whether the line is deleted as the end of a large comment
TrackLarge(large, in_lc, lines, start, line, k, next_is_comment) ==
    IF ~large
    THEN [in_large_comment |-> in_lc, large_comment_lines |-> lines,
          large_comment_start_index |-> start, deleted |-> FALSE]
    ELSE [in_large_comment |-> next_is_comment,
          large_comment_lines |-> IF ~in_lc THEN <<line>> ELSE Append(lines, line),
          large_comment_start_index |-> IF ~in_lc THEN k ELSE start,
          deleted |-> /\ ~next_is_comment
                      /\ Len(IF ~in_lc THEN <<line>> ELSE Append(lines, line)) > 1]

\* lines of a document
Blank        == <<>>                                   \* an empty paragraph
FileName     == <<"a", ".", "p", "y">>                 \* a.py
HashFileName == <<"#", " ", "a", ".", "p", "y">>       \* # a.py

DocVocab == {HashEn, HashZh, Code, Blank, FileName, HashFileName}

\* a comment, a comment that names a file, code, a comment alone, code
ExampleLeak == <<HashZh, HashFileName, Code, HashZh, Code>>

DocContents == Contents(DocVocab, MaxDocLines) \cup {ExampleLeak}

InitDocument ==
    /\ pc = "doc_loop"
    /\ paragraphs \in DocContents
    /\ remove_filenames \in BOOLEAN
    /\ remove_large_comments_flag \in BOOLEAN
    /\ remove_english_comments \in BOOLEAN
    /\ remove_comments_ratio \in 0..MaxDocRatio
    /\ in_large_comment = FALSE
    /\ large_comment_lines = <<>>
    /\ large_comment_start_index = -1
    /\ stats = stats0
    /\ new_doc = <<>>
    /\ deleted_doc = <<>>
    /\ has_deleted_content = FALSE
    /\ content = <<>>
    /\ IdleLocals
    /\ IdleEven
    /\ remove_english_comments_flag = FALSE
    /\ merged_content = <<>>
    /\ lines_per_page = 0
    /\ pages = <<>>
    /\ IdleEnglish

\* the tracker is set to t
SetTracker(t) ==
    /\ in_large_comment' = t.in_large_comment
    /\ large_comment_lines' = t.large_comment_lines
    /\ large_comment_start_index' = t.large_comment_start_index

\* new_doc.add_paragraph(line); stats['remaining_lines'] += 1
DocKeep(line) ==
    /\ new_doc' = Append(new_doc, line)
    /\ kept' = Append(kept, i)
    /\ stats' = [stats EXCEPT !.total_lines = @ + 1, !.remaining_lines = @ + 1]
    /\ UNCHANGED <<deleted_doc, has_deleted_content>>

\* an empty paragraph is copied and not counted as remaining
DocBlank(line) ==
    /\ new_doc' = Append(new_doc, line)
    /\ kept' = Append(kept, i)
    /\ stats' = [stats EXCEPT !.total_lines = @ + 1]
    /\ UNCHANGED <<trackVars, deleted_doc, has_deleted_content>>

\* a file name is recorded as deleted
DocFilename(line) ==
    /\ deleted_doc' = Append(deleted_doc, [kind |-> "filename", first |-> i + 1,
                                           last |-> i + 1, lines |-> <<line>>])
    /\ stats' = [stats EXCEPT !.total_lines = @ + 1, !.deleted_filenames = @ + 1]
    /\ has_deleted_content' = TRUE
    /\ UNCHANGED <<trackVars, new_doc, kept>>

\* a comment line, t being the outcome of the tracking of large comments
DocComment(line, t) ==
    /\ SetTracker(t)
    /\ IF t.deleted
       THEN /\ deleted_doc' =
                   Append(deleted_doc, [kind |-> "large",
                                        first |-> t.large_comment_start_index + 1,
                                        last |-> i + 1,
                                        lines |-> t.large_comment_lines])
            /\ stats' = [stats EXCEPT !.total_lines = @ + 1,
                                      !.deleted_large_comments =
                                          @ + Len(t.large_comment_lines)]
            /\ has_deleted_content' = TRUE
            /\ UNCHANGED <<new_doc, kept>>
       ELSE IF DocEnglishDrop(line, remove_english_comments)
       THEN /\ deleted_doc' = Append(deleted_doc, [kind |-> "english", first |-> i + 1,
                                                   last |-> i + 1, lines |-> <<line>>])
            /\ stats' = [stats EXCEPT !.total_lines = @ + 1,
                                      !.deleted_english_comments = @ + 1]
            /\ has_deleted_content' = TRUE
            /\ UNCHANGED <<new_doc, kept>>
       ELSE DocKeep(line)

\* the body of the loop on the paragraph at index i
DocParagraph(line, next_is_comment) ==
    IF Strip(line) = <<>> THEN DocBlank(line)
    ELSE IF remove_filenames /\ is_filename_line(line) THEN DocFilename(line)
    ELSE IF doc_is_comment_line(line)
    THEN DocComment(line, TrackLarge(remove_large_comments_flag, in_large_comment,
                                     large_comment_lines, large_comment_start_index,
                                     line, i, next_is_comment))
    ELSE DocKeep(line) /\ UNCHANGED trackVars

\* one iteration of the loop over doc.paragraphs
DocStep ==
    /\ pc = "doc_loop"
    /\ i < Len(paragraphs)
    /\ DocParagraph(LineAt(paragraphs, i), NextIsComment(paragraphs, i))
    /\ i' = i + 1
    /\ UNCHANGED <<pc, paragraphs, remove_filenames, content, remove_english_comments,
                   scanVars, result, evenVars, procVars, englishVars>>

\* after the loop: the message when nothing was deleted, the documents are
\* saved and stats is returned
DocReturn ==
    /\ pc = "doc_loop"
    /\ i >= Len(paragraphs)
    /\ deleted_doc' = IF ~has_deleted_content
                      THEN Append(deleted_doc, [kind |-> "nothing", first |-> 0,
                                                last |-> 0, lines |-> <<>>])
                      ELSE deleted_doc
    /\ pc' = "doc_done"
    /\ UNCHANGED <<i, paragraphs, remove_filenames, trackVars, stats, new_doc,
                   has_deleted_content, kept, content, remove_english_comments,
                   scanVars, result, evenVars, procVars, englishVars>>

NextDocument ==
    \/ DocStep
    \/ DocReturn

SpecDocument == InitDocument /\ [][NextDocument]_vars

(***************************************************************************)
(* Any of the five programs.                                               *)
(***************************************************************************)
Init == InitLarge \/ InitEvenly \/ InitProcess \/ InitEnglish \/ InitDocument

Next == NextLarge \/ NextEvenly \/ NextProcess \/ NextEnglish \/ NextDocument

Spec == Init /\ [][Next]_vars

(***************************************************************************)
(* Vocabulary of the properties.                                           *)
(***************************************************************************)
Indices(c) == 0..(Len(c) - 1)

\* the indices of content whose lines are in the output
KeptSet == {kept[k] : k \in DOMAIN kept}

\* the scanner state of the first pass when it reaches line k
StateBefore(c, k) == ScanFrom(ScanInit, SubSeq(c, 1, k), 0)

EolAt(c, k) == is_end_of_line_comment(LineAt(c, k))

\* line k is not an end-of-line comment and the first pass classifies it
\* as comment syntax
CommentSyntaxAt(c, k) ==
    /\ ~EolAt(c, k)
    /\ ClassifyLine(StateBefore(c, k), LineAt(c, k)).is_comment

\* line k is not an end-of-line comment and the first pass classifies it
\* as no comment
PlainCodeAt(c, k) ==
    /\ ~EolAt(c, k)
    /\ ~ClassifyLine(StateBefore(c, k), LineAt(c, k)).is_comment

BlockLength(b) == b[2] - b[1] + 1

BlockLines(b) == b[1]..b[2]

RecordedBlocks == {comment_blocks[j] : j \in DOMAIN comment_blocks}

\* the reconstructed text of block b is classified English
BlockEnglish(c, b) ==
    LET t == Strip(BlockText(c, b[1], b[2]))
    IN  t # <<>> /\ is_english_text(t)

(***************************************************************************)
(* C1.  Every line that is an end-of-line comment is in the output of      *)
(* remove_large_comments, for both values of remove_english_comments and   *)
(* whatever lines surround it.  The code removes such a line when it lies  *)
(* inside the range of a recorded block of two lines or more.              *)
(***************************************************************************)
C1_EolLinesKept ==
    pc = "large_done" =>
        \A k \in Indices(content) : EolAt(content, k) => k \in KeptSet

(***************************************************************************)
(* C2.  With remove_english_comments false, a full-line comment whose      *)
(* neighbours (those that exist) are each plain code or an end-of-line     *)
(* comment is kept; in particular a comment line followed by a line of     *)
(* code with a trailing comment is returned unchanged.                     *)
(***************************************************************************)
C2_IsolatedCommentKept ==
    (pc = "large_done" /\ ~remove_english_comments) =>
        /\ \A k \in Indices(content) :
              (/\ CommentSyntaxAt(content, k)
               /\ (k > 0 => (PlainCodeAt(content, k - 1) \/ EolAt(content, k - 1)))
               /\ (k < Len(content) - 1 =>
                      (PlainCodeAt(content, k + 1) \/ EolAt(content, k + 1))))
              => k \in KeptSet
        /\ (content = <<HashEn, CodeEol>> => result = content)

(***************************************************************************)
(* C3.  As claimed: with remove_english_comments true, a block of two      *)
(* lines or more is dropped when its text is English and kept whole when   *)
(* it is not.                                                              *)
(***************************************************************************)
C3_LargeDroppedIffEnglish ==
    (pc = "large_done" /\ remove_english_comments) =>
        \A b \in RecordedBlocks :
            BlockLength(b) >= 2 =>
                IF BlockEnglish(content, b)
                THEN BlockLines(b) \cap KeptSet = {}
                ELSE BlockLines(b) \subseteq KeptSet

\* C3 as amended: with remove_english_comments true, every line of every
\* block of two lines or more is dropped, whether the text of the block is
\* classified English or not.
C3_LargeAlwaysDropped ==
    (pc = "large_done" /\ remove_english_comments) =>
        \A b \in RecordedBlocks :
            BlockLength(b) >= 2 => BlockLines(b) \cap KeptSet = {}

\* a call with remove_english_comments true has returned, and it has dropped
\* a block of two lines or more whose text is not English
C3_Witness ==
    /\ pc = "large_done"
    /\ remove_english_comments
    /\ \E b \in RecordedBlocks :
          /\ BlockLength(b) >= 2
          /\ ~BlockEnglish(content, b)
          /\ BlockLines(b) \cap KeptSet = {}

(***************************************************************************)
(* C4.  With remove_english_comments false, every line of every block of   *)
(* two lines or more is dropped, and no other comment line is: a dropped   *)
(* comment line has a comment line next to it.  The two examples of the    *)
(* specification are part of the statement.                                *)
(***************************************************************************)
C4_OnlyLargeBlocksDropped ==
    (pc = "large_done" /\ ~remove_english_comments) =>
        /\ \A b \in RecordedBlocks :
              BlockLength(b) >= 2 => BlockLines(b) \cap KeptSet = {}
        /\ \A k \in Indices(content) \ KeptSet :
              CommentSyntaxAt(content, k) =>
                  \/ (k > 0 /\ CommentSyntaxAt(content, k - 1))
                  \/ (k < Len(content) - 1 /\ CommentSyntaxAt(content, k + 1))
        /\ (content = ExampleDocstring => result = <<<<"c", "o", "d", "e">>>>)
        /\ (content = ExampleChinese => result = <<<<"d", "e", "f">>, <<" ", " ", "p">>>>)

(***************************************************************************)
(* C5.  Through process_code_files, remove_english_comments_flag true with *)
(* remove_large_comments_flag false and ratio 0 drops every block of one   *)
(* line whose extracted text is English.                                   *)
(***************************************************************************)
C5_EnglishAloneDrops ==
    (/\ pc = "proc_done"
     /\ remove_english_comments_flag
     /\ ~remove_large_comments_flag
     /\ remove_comments_ratio = 0) =>
        \A j \in DOMAIN Blocks(content) :
            LET b == Blocks(content)[j]
                t == ExtractCommentText(LineAt(content, b[1]))
            IN  (BlockLength(b) = 1 /\ t # <<>> /\ is_english_text(t))
                    => b[1] \notin KeptSet

(***************************************************************************)
(* C6.  With remove_english_comments true, a line that forms a block of    *)
(* one line is dropped exactly when the text left after stripping its      *)
(* marker is not empty and is classified English.                          *)
(***************************************************************************)
\* the text of a comment of one line: what follows # or //, or what lies
\* between /* and */ or between two triple quotes of the same kind
MarkerText(line) ==
    LET s == Strip(line)
    IN  CASE StartsWith(s, <<"#">>) -> Strip(From(s, 1))
          [] StartsWith(s, <<"/", "/">>) -> Strip(From(s, 2))
          [] StartsWith(s, <<"/", "*">>) /\ EndsWith(s, <<"*", "/">>) ->
                Strip(Slice(s, 2, 2))
          [] StartsWith(s, TDQ) /\ EndsWith(s, TDQ) -> Strip(Slice(s, 3, 3))
          [] StartsWith(s, TSQ) /\ EndsWith(s, TSQ) -> Strip(Slice(s, 3, 3))
          [] OTHER -> <<>>

C7_BlocksPartition ==
    pc \in {"large_emit", "large_done"} =>
        SumSeq([j \in DOMAIN comment_blocks |-> BlockLength(comment_blocks[j])])
          + Cardinality({k \in Indices(content) : EolAt(content, k)})
          + Cardinality({k \in Indices(content) : PlainCodeAt(content, k)})
        = Len(content)

(***************************************************************************)
(* C8.  remove_single_comments_evenly with ratio r >= 1 removes exactly    *)
(* floor(c / r) distinct lines, all of them candidates, and keeps every    *)
(* other line; c is the number of candidates, the comment lines that are   *)
(* not between two comment lines.  Ratio 3 over nine candidates removes    *)
(* three.                                                                  *)
(***************************************************************************)
Candidates(c) ==
    {k \in Indices(c) :
        /\ is_comment_line(LineAt(c, k))
        /\ ~(/\ k > 0
             /\ k < Len(c) - 1
             /\ is_comment_line(LineAt(c, k - 1))
             /\ is_comment_line(LineAt(c, k + 1)))}

C8_EvenlyRemovesFloor ==
    (pc = "evenly_done" /\ remove_ratio >= 1) =>
        LET removed == Indices(content) \ KeptSet
        IN  /\ removed \subseteq Candidates(content)
            /\ Cardinality(removed) = Cardinality(Candidates(content)) \div remove_ratio
            /\ Len(result) = Len(content) - Cardinality(removed)
            /\ \A k \in DOMAIN result : result[k] = LineAt(content, kept[k])
            /\ \A k \in DOMAIN kept : k > 1 => kept[k - 1] < kept[k]
            /\ removed = indices_to_remove

\* the call with ratio 3 on the example with nine candidates has returned,
\* with three lines removed
C8_Witness ==
    /\ pc = "evenly_done"
    /\ content = ExampleNine
    /\ remove_ratio = 3
    /\ Cardinality(Candidates(content)) = 9
    /\ Len(result) = Len(content) - 3

(***************************************************************************)
(* C9.  remove_single_comments_evenly never removes a line that is an      *)
(* end-of-line comment.                                                    *)
(***************************************************************************)
C9_EvenlyKeepsEol ==
    pc = "evenly_done" =>
        \A k \in Indices(content) : EolAt(content, k) => k \in KeptSet

(***************************************************************************)
(* C10.  is_english_text agrees with the reference: with a and n the       *)
(* numbers of ASCII and other characters that are neither digits nor       *)
(* punctuation of the fixed set nor whitespace, the result is false when   *)
(* a + n = 0, false when n > 0 and n / (a + n) > 0.1, and otherwise true   *)
(* exactly when a / (a + n) > 0.9.  Words of ASCII letters give true,      *)
(* Chinese alone gives false, the empty string gives false.                *)
(***************************************************************************)
\* the characters of t that count: no digit, no punctuation, no whitespace
Counted(t, ascii) ==
    Cardinality({k \in DOMAIN t :
                    /\ t[k] \notin PunctDigits
                    /\ ~IsSpace(t[k])
                    /\ IsAscii(t[k]) = ascii})

ReferenceEnglish(t) ==
    LET a == Counted(t, TRUE)
        n == Counted(t, FALSE)
    IN  IF a + n = 0 THEN FALSE
        ELSE IF n > 0 /\ 10 * n > a + n THEN FALSE
        ELSE 10 * a > 9 * (a + n)

MixedTexts == {TextMixedShort, TextMixed80, TextMixed20, TextHashMixed, TextHashMixedZh}

C11_MixedNotEnglish ==
    pc = "english_done" =>
        /\ ((Counted(text, TRUE) > 0 /\ Counted(text, FALSE) > 0) => verdict = FALSE)
        /\ (text \in MixedTexts => verdict = FALSE)

(***************************************************************************)
(* C12.  remove_large_comments is idempotent: for each value of            *)
(* remove_english_comments, applying it to its own output returns that     *)
(* output.                                                                 *)
(***************************************************************************)
C12_LargeIdempotent ==
    pc = "large_done" =>
        /\ result = remove_large_comments(content, remove_english_comments)
        /\ remove_large_comments(result, remove_english_comments) = result

\* a call has returned that removed some lines and kept others, among them a
\* comment line, and a second call on its output removes nothing
C12_Witness ==
    /\ pc = "large_done"
    /\ Len(result) < Len(content)
    /\ \E b \in RecordedBlocks : BlockLength(b) = 1 /\ b[1] \in KeptSet
    /\ remove_large_comments(result, remove_english_comments) = result

(***************************************************************************)
(* C13.  The output of remove_large_comments and the output of             *)
(* remove_single_comments_evenly are subsequences of the input: each line  *)
(* of the output is the line of the input at an index of its own, the      *)
(* indices increase strictly, and no step of either function changes the   *)
(* input list.                                                             *)
(***************************************************************************)
\* s is t with some of its elements left out
RECURSIVE IsSubsequence(_, _)
IsSubsequence(s, t) ==
    IF s = <<>> THEN TRUE
    ELSE IF t = <<>> THEN FALSE
    ELSE IF Head(s) = Head(t) THEN IsSubsequence(Tail(s), Tail(t))
    ELSE IsSubsequence(s, Tail(t))

OutputIsSubsequence ==
    pc \in {"large_emit", "large_done", "evenly_done"} =>
        /\ Len(kept) = Len(result)
        /\ \A k \in DOMAIN kept : kept[k] \in Indices(content)
        /\ \A k \in DOMAIN kept : k > 1 => kept[k - 1] < kept[k]
        /\ \A k \in DOMAIN result : result[k] = LineAt(content, kept[k])
        /\ IsSubsequence(result, content)

C13_OutputIsSubsequence ==
    /\ []OutputIsSubsequence
    /\ [][content' = content]_vars

\* a call of either function has returned, with a line removed between two
\* lines kept
C13_Witness ==
    /\ pc \in {"large_done", "evenly_done"}
    /\ \E k \in Indices(content) :
          /\ k \notin KeptSet
          /\ k - 1 \in KeptSet
          /\ k + 1 \in KeptSet

(***************************************************************************)
(* C14.  While the triple-quote state of the first pass is open, only a    *)
(* line that ends with the marker that opened it closes it: after a line   *)
(* that does not end with that marker (it may end with the other one) the  *)
(* state is still open.  The code closes the state on either marker.       *)
(***************************************************************************)
\* the index of the line that opened the triple-quote state open before
\* line k: the last line before k at which the state went from closed to open
OpenerIndex(c, k) ==
    CHOOSE j \in 0..(k - 1) :
        /\ ~StateBefore(c, j).in_py_triple_quotes
        /\ \A m \in (j + 1)..k : StateBefore(c, m).in_py_triple_quotes

\* the marker the line at index j starts with
OpeningMarker(c, j) ==
    IF StartsWith(Strip(LineAt(c, j)), TDQ) THEN TDQ ELSE TSQ

C14_ClosedBySameMarkerOnly ==
    (pc = "large_scan" /\ i > 0) =>
        LET k == i - 1
        IN  (/\ StateBefore(content, k).in_py_triple_quotes
             /\ ~EolAt(content, k)
             /\ ~EndsWith(Strip(LineAt(content, k)),
                          OpeningMarker(content, OpenerIndex(content, k))))
            => in_py_triple_quotes

(***************************************************************************)
(* C15.  With no continuation state open, the first pass classifies as     *)
(* comment a complete HTML comment of one line and a line that starts      *)
(* with * and not with */, as it does a line that starts with # or //; two *)
(* such lines in a row are a block of two lines, which is dropped.  The    *)
(* first pass of the code knows neither form.                              *)
(***************************************************************************)
\* no continuation state is open when the first pass reaches line k
ClosedBefore(c, k) ==
    /\ ~StateBefore(c, k).in_py_triple_quotes
    /\ ~StateBefore(c, k).in_c_multiline

\* a complete HTML comment, or a line that starts with * and not with */
HtmlOrStar(line) ==
    LET s == Strip(line)
    IN  \/ (StartsWith(s, <<"<", "!", "-", "-">>) /\ EndsWith(s, <<"-", "-", ">">>))
        \/ (StartsWith(s, <<"*">>) /\ ~StartsWith(s, <<"*", "/">>))

C15_HtmlAndStarAreComments ==
    pc = "large_done" =>
        /\ \A k \in Indices(content) :
              (/\ ClosedBefore(content, k)
               /\ ~EolAt(content, k)
               /\ HtmlOrStar(LineAt(content, k)))
              => CommentSyntaxAt(content, k)
        /\ \A k \in Indices(content) :
              (/\ k + 1 \in Indices(content)
               /\ ClosedBefore(content, k)
               /\ ~EolAt(content, k)
               /\ ~EolAt(content, k + 1)
               /\ HtmlOrStar(LineAt(content, k))
               /\ HtmlOrStar(LineAt(content, k + 1)))
              => (k \notin KeptSet /\ k + 1 \notin KeptSet)

(***************************************************************************)
(* C16.  With no continuation state open, a line that starts and ends with *)
(* the same triple-quote marker, the marker occurring more than once, is   *)
(* classified as comment and leaves the triple-quote state closed.  When   *)
(* it follows no comment and a plain code line follows it, it is a block   *)
(* of one line, the code line is not classified as comment, and            *)
(* remove_large_comments without the English removal keeps both lines.     *)
(***************************************************************************)
\* a triple-quoted string that opens and closes on the line
OneLineTriple(line) ==
    LET s == Strip(line)
    IN  \/ (StartsWith(s, TDQ) /\ EndsWith(s, TDQ) /\ Count(s, TDQ) > 1)
        \/ (StartsWith(s, TSQ) /\ EndsWith(s, TSQ) /\ Count(s, TSQ) > 1)

\* a line that is code whatever precedes it in a closed state: no
\* end-of-line comment, and no comment for the first pass started afresh
PlainCodeLine(line) ==
    /\ ~is_end_of_line_comment(line)
    /\ ~ClassifyLine(ScanInit, line).is_comment

\* line k is a one-line triple-quoted string met in a closed state
OneLineTripleAt(c, k) ==
    /\ OneLineTriple(LineAt(c, k))
    /\ ~EolAt(c, k)
    /\ ClosedBefore(c, k)

\* line k is as above, follows no comment, and a plain code line follows it
OneLineTripleThenCode(c, k) ==
    /\ OneLineTripleAt(c, k)
    /\ k + 1 \in Indices(c)
    /\ PlainCodeLine(LineAt(c, k + 1))
    /\ (k > 0 => PlainCodeAt(c, k - 1))

C16_OneLineTripleIsSingleBlock ==
    pc = "large_done" =>
        \A k \in Indices(content) :
            /\ OneLineTripleAt(content, k) =>
                  (/\ CommentSyntaxAt(content, k)
                   /\ ~StateBefore(content, k + 1).in_py_triple_quotes)
            /\ OneLineTripleThenCode(content, k) =>
                  (/\ <<k, k>> \in RecordedBlocks
                   /\ PlainCodeAt(content, k + 1)
                   /\ (~remove_english_comments =>
                          (k \in KeptSet /\ k + 1 \in KeptSet)))

\* a call without the English removal has returned on a content where a
\* one-line triple-quoted string is followed by a plain code line, and both
\* are in the output
C16_Witness ==
    /\ pc = "large_done"
    /\ ~remove_english_comments
    /\ \E k \in Indices(content) :
          /\ OneLineTripleThenCode(content, k)
          /\ <<k, k>> \in RecordedBlocks
          /\ k \in KeptSet
          /\ k + 1 \in KeptSet

(***************************************************************************)
(* C17.  The blocks recorded by the first pass are sorted by start index   *)
(* and pairwise disjoint, each with 0 <= start <= end <= len(lines) - 1,   *)
(* and at least one line lies between the end of a block and the start of  *)
(* the next.                                                               *)
(***************************************************************************)
C17_BlocksSortedDisjoint ==
    pc \in {"large_emit", "large_done"} =>
        /\ \A j \in DOMAIN comment_blocks :
              /\ 0 <= comment_blocks[j][1]
              /\ comment_blocks[j][1] <= comment_blocks[j][2]
              /\ comment_blocks[j][2] <= Len(content) - 1
        /\ \A j \in DOMAIN comment_blocks :
              j > 1 => comment_blocks[j - 1][2] + 2 <= comment_blocks[j][1]
        /\ \A j1, j2 \in DOMAIN comment_blocks :
              j1 < j2 =>
                  /\ comment_blocks[j1][1] < comment_blocks[j2][1]
                  /\ BlockLines(comment_blocks[j1]) \cap BlockLines(comment_blocks[j2]) = {}

\* the first pass has recorded two blocks with exactly one line between them
C17_Witness ==
    /\ pc \in {"large_emit", "large_done"}
    /\ Len(comment_blocks) >= 2
    /\ comment_blocks[1][2] + 2 = comment_blocks[2][1]

(***************************************************************************)
(* C18.  When a triple quote or a /* opened at index k < len - 1 is closed *)
(* by no later line, the block that holds k ends at the last index and     *)
(* remove_large_comments returns with every line from k to the end         *)
(* removed; on the empty list it returns the empty list, and every         *)
(* iteration of the second loop moves the index forward.  A triple quote   *)
(* is closed by a line that ends with the same marker, a /* by a line that *)
(* holds */; a line that is an end-of-line comment opens and closes        *)
(* nothing.  The code ends the block at a line that ends with the other    *)
(* triple-quote marker.                                                    *)
(***************************************************************************)
\* the markers open after the line, given those open before it: py is "none"
\* or the triple-quote marker that is open, c tells whether a /* is open
MarkersAfter(m, line) ==
    LET s == Strip(line)
    IN  IF is_end_of_line_comment(line) THEN m
        ELSE IF m.py # "none"
        THEN IF EndsWith(s, m.py) THEN [m EXCEPT !.py = "none"] ELSE m
        ELSE IF StartsWith(s, TDQ)
        THEN IF EndsWith(s, TDQ) /\ Count(s, TDQ) > 1 THEN m ELSE [m EXCEPT !.py = TDQ]
        ELSE IF StartsWith(s, TSQ)
        THEN IF EndsWith(s, TSQ) /\ Count(s, TSQ) > 1 THEN m ELSE [m EXCEPT !.py = TSQ]
        ELSE IF m.c THEN [m EXCEPT !.c = ~Contains(s, <<"*", "/">>)]
        ELSE IF StartsWith(s, <<"/", "*">>)
        THEN [m EXCEPT !.c = ~Contains(s, <<"*", "/">>)]
        ELSE m

\* the markers open before line k of c
RECURSIVE MarkersBefore(_, _)
MarkersBefore(c, k) ==
    IF k = 0 THEN [py |-> "none", c |-> FALSE]
    ELSE MarkersAfter(MarkersBefore(c, k - 1), LineAt(c, k - 1))

\* the line at k opens a marker that no later line closes
DanglingOpenAt(c, k) ==
    \/ /\ MarkersBefore(c, k).py = "none"
       /\ \A j \in (k + 1)..Len(c) : MarkersBefore(c, j).py # "none"
    \/ /\ ~MarkersBefore(c, k).c
       /\ \A j \in (k + 1)..Len(c) : MarkersBefore(c, j).c

C18_DanglingOpenRemovesRest ==
    /\ pc = "large_done" =>
          /\ content = <<>> => result = <<>>
          /\ \A k \in Indices(content) :
                (k < Len(content) - 1 /\ DanglingOpenAt(content, k)) =>
                    /\ \E b \in RecordedBlocks :
                          b[1] <= k /\ b[2] = Len(content) - 1
                    /\ \A j \in k..(Len(content) - 1) : j \notin KeptSet
    /\ (pc = "large_emit" /\ i < Len(content)) =>
          EmitStep(content, comment_blocks, remove_english_comments, i).i > i

(***************************************************************************)
(* C19.  remove_single_comments_evenly with a ratio <= 0 returns, and      *)
(* behaves as with ratio 3: it removes floor(c / 3) of the c candidates,   *)
(* and the samples it can draw are those of ratio 3.                       *)
(***************************************************************************)
C19_NonPositiveRatioIsThree ==
    (pc = "evenly_done" /\ remove_ratio <= 0) =>
        LET removed == Indices(content) \ KeptSet
        IN  /\ removed \subseteq Candidates(content)
            /\ Cardinality(removed) = Cardinality(Candidates(content)) \div 3
            /\ removed \in Samples(content, 3)
            /\ Samples(content, remove_ratio) = Samples(content, 3)
            /\ result = Pick(content, EvenlyKept(content, removed))

\* the call with ratio 0 or less on the example with nine candidates has
\* returned, with three lines removed
C19_Witness ==
    /\ pc = "evenly_done"
    /\ remove_ratio <= 0
    /\ content = ExampleNine
    /\ Cardinality(Indices(content) \ KeptSet) = 3

(***************************************************************************)
(* C20.  In process_code_files, remove_comments_ratio = 0 disables the     *)
(* random removal: remove_single_comments_evenly is not called, no index   *)
(* is sampled, and the merged content is what the large-comment step       *)
(* produced (the merged lines themselves when that step is off too); the   *)
(* default ratio 3 is not used on that path.                               *)
(***************************************************************************)
\* merged_content after the step of remove_large_comments
AfterLargeStep ==
    IF remove_large_comments_flag
    THEN remove_large_comments(content, remove_english_comments_flag)
    ELSE content

C20_RatioZeroDisables ==
    (pc \in {"proc_pages", "proc_done"} /\ remove_comments_ratio = 0) =>
        /\ indices_to_remove = {}
        /\ merged_content = AfterLargeStep
        /\ merged_content = Pick(content, kept)
        /\ pc = "proc_done" => pages = split_into_pages(AfterLargeStep, lines_per_page)

\* process_code_files has returned with ratio 0 on a content that still
\* holds three candidates of the random removal after the large-comment
\* step, which a ratio of 3 would have thinned out
C20_Witness ==
    /\ pc = "proc_done"
    /\ remove_comments_ratio = 0
    /\ remove_large_comments_flag
    /\ Cardinality(Candidates(merged_content)) >= 3
    /\ merged_content = AfterLargeStep

(***************************************************************************)
(* Vocabulary of the properties of process_document.                       *)
(***************************************************************************)
\* paragraph k is a comment line for process_document
DocCommentAt(k) ==
    k \in Indices(paragraphs) /\ doc_is_comment_line(LineAt(paragraphs, k))

\* paragraph k belongs to a run of two or more consecutive comment lines
InCommentRun(k) ==
    DocCommentAt(k) /\ (DocCommentAt(k - 1) \/ DocCommentAt(k + 1))

\* the records of large comments in the document of deleted content
LargeRecords ==
    {deleted_doc[j] : j \in {n \in DOMAIN deleted_doc : deleted_doc[n].kind = "large"}}

\* the paragraphs left out of the output document as the end of a large comment
OmittedAsLarge ==
    {k \in Indices(paragraphs) \ KeptSet : \E rec \in LargeRecords : rec.last = k + 1}

(***************************************************************************)
(* C21.  process_document with remove_large_comments true leaves out of    *)
(* the output document every paragraph of every run of two or more         *)
(* consecutive comment lines, and keeps a comment line that stands alone   *)
(* (when neither the file names nor the English comments are removed).     *)
(* The code leaves out the last line of a run only.                        *)
(***************************************************************************)
C21_LargeRunsOmitted ==
    (pc = "doc_done" /\ remove_large_comments_flag) =>
        /\ \A k \in Indices(paragraphs) : InCommentRun(k) => k \notin KeptSet
        /\ (~remove_filenames /\ ~remove_english_comments) =>
              \A k \in Indices(paragraphs) :
                  (DocCommentAt(k) /\ ~InCommentRun(k)) => k \in KeptSet

(***************************************************************************)
(* C22.  The counters returned by process_document add up: total_lines is  *)
(* the number of blank paragraphs plus remaining_lines plus the four       *)
(* counters of deleted lines, and deleted_large_comments is the number of  *)
(* paragraphs left out of the output as large comments.  The code counts   *)
(* every line of a run as deleted while all but the last are kept and      *)
(* counted as remaining.                                                   *)
(***************************************************************************)
BlankParagraphs ==
    Cardinality({k \in Indices(paragraphs) : Strip(LineAt(paragraphs, k)) = <<>>})

C22_StatsAddUp ==
    pc = "doc_done" =>
        /\ stats.total_lines = Len(paragraphs)
        /\ stats.total_lines =
              BlankParagraphs + stats.remaining_lines + stats.deleted_filenames
              + stats.deleted_large_comments + stats.deleted_english_comments
              + stats.deleted_random_comments
        /\ stats.deleted_large_comments = Cardinality(OmittedAsLarge)

(***************************************************************************)
(* C23.  process_document honours remove_comments_ratio: with ratio 0 no   *)
(* comment is deleted at random; with ratio r > 0 and at least r comment   *)
(* lines that stand alone, deleted_random_comments is positive.  The code  *)
(* never reads the ratio but to print it.                                  *)
(***************************************************************************)
IsolatedComments ==
    {k \in Indices(paragraphs) : DocCommentAt(k) /\ ~InCommentRun(k)}

C23_RatioHonoured ==
    pc = "doc_done" =>
        /\ remove_comments_ratio = 0 => stats.deleted_random_comments = 0
        /\ (/\ remove_comments_ratio > 0
            /\ Cardinality(IsolatedComments) >= remove_comments_ratio)
           => stats.deleted_random_comments > 0

(***************************************************************************)
(* C28.  In process_document with remove_large_comments true, whatever the *)
(* other options, the tracker of large comments is idle (in_large_comment  *)
(* false) whenever a paragraph that is no comment is processed, and a      *)
(* comment line between two paragraphs that are no comments is neither     *)
(* left out as a large comment nor covered by the record of one.  With     *)
(* remove_filenames true a comment line that names a file is removed       *)
(* before the tracker sees it, and the run opened before it stays open.    *)
(***************************************************************************)
\* paragraph k is a comment line between two paragraphs that are no comments
BetweenNonComments(k) ==
    /\ DocCommentAt(k)
    /\ k - 1 \in Indices(paragraphs)
    /\ k + 1 \in Indices(paragraphs)
    /\ ~DocCommentAt(k - 1)
    /\ ~DocCommentAt(k + 1)

C28_TrackerDoesNotLeak ==
    remove_large_comments_flag =>
        /\ (pc = "doc_loop" /\ i < Len(paragraphs) /\ ~DocCommentAt(i))
              => ~in_large_comment
        /\ pc = "doc_done" =>
              \A k \in Indices(paragraphs) :
                  BetweenNonComments(k) =>
                      /\ k \notin OmittedAsLarge
                      /\ \A rec \in LargeRecords : ~(rec.first <= k + 1 /\ k + 1 <= rec.last)

(***************************************************************************)
(* C24.  split_into_pages(content, n) with n >= 1 returns pages of n lines *)
(* or more each, the last one included.  The code cuts the content every n *)
(* lines, and the last page holds what is left.                            *)
(***************************************************************************)
C24_PagesNotShorter ==
    (pc = "proc_done" /\ lines_per_page >= 1) =>
        \A p \in DOMAIN pages : Len(pages[p]) >= lines_per_page

(***************************************************************************)
(* C25.  In the first pass of remove_large_comments, the iteration on a    *)
(* line that is an end-of-line comment changes nothing of the scanner      *)
(* state: the two continuation flags, the in-block flag, the pending block *)
(* start and the blocks recorded are after the line what they were before, *)
(* also when the line ends with a triple quote or holds */.                *)
(***************************************************************************)
C25_EolLeavesScannerAlone ==
    [][(pc = "large_scan" /\ i < Len(content) /\ EolAt(content, i))
          => UNCHANGED scanVars]_vars

\* the first pass has just passed, with both continuation states open, a
\* line that is an end-of-line comment, holds */ and ends with a triple
\* quote; both states are still open
C25_Witness ==
    /\ pc = "large_scan"
    /\ i > 0
    /\ EolAt(content, i - 1)
    /\ Contains(LineAt(content, i - 1), <<"*", "/">>)
    /\ EndsWith(Strip(LineAt(content, i - 1)), TSQ)
    /\ StateBefore(content, i - 1).in_py_triple_quotes
    /\ StateBefore(content, i - 1).in_c_multiline
    /\ in_py_triple_quotes
    /\ in_c_multiline
    /\ in_comment_block

(***************************************************************************)
(* C26.  remove_large_comments never removes a plain code line: a line     *)
(* that is not an end-of-line comment and that the first pass classifies   *)
(* as no comment lies in no recorded block and is in the output, for both  *)
(* values of remove_english_comments.                                      *)
(***************************************************************************)
C26_PlainCodeKept ==
    pc = "large_done" =>
        \A k \in Indices(content) :
            PlainCodeAt(content, k) =>
                /\ k \in KeptSet
                /\ \A b \in RecordedBlocks : k \notin BlockLines(b)

\* a call has returned that dropped a block and kept the plain code line
\* after it
C26_Witness ==
    /\ pc = "large_done"
    /\ \E k \in Indices(content) :
          /\ k > 0
          /\ PlainCodeAt(content, k)
          /\ k \in KeptSet
          /\ k - 1 \notin KeptSet

(***************************************************************************)
(* C27.  remove_large_comments with remove_english_comments true deletes   *)
(* every English full-line comment: a line whose trimmed form starts with  *)
(* # or // and whose text after the marker is classified English is not in *)
(* the output, also when that text holds // or #.  The code takes such a   *)
(* line for an end-of-line comment and keeps it.                           *)
(***************************************************************************)
\* a full-line comment in # or // whose text is English
EnglishFullLine(line) ==
    /\ (StartsWith(Strip(line), <<"#">>) \/ StartsWith(Strip(line), <<"/", "/">>))
    /\ MarkerText(line) # <<>>
    /\ is_english_text(MarkerText(line))

C27_EnglishFullLinesDropped ==
    (pc = "large_done" /\ remove_english_comments) =>
        \A k \in Indices(content) :
            EnglishFullLine(LineAt(content, k)) => k \notin KeptSet

C30_PoliciesInSequence ==
    (/\ pc \in {"proc_pages", "proc_done"}
     /\ remove_large_comments_flag
     /\ remove_comments_ratio > 0) =>
        /\ \A j \in DOMAIN Blocks(content) :
              BlockLength(Blocks(content)[j]) >= 2 =>
                  BlockLines(Blocks(content)[j]) \cap KeptSet = {}
        /\ Len(AfterLargeStep) - Len(merged_content)
              = Cardinality(Candidates(AfterLargeStep)) \div remove_comments_ratio
        /\ Cardinality(indices_to_remove) = Len(AfterLargeStep) - Len(merged_content)
        /\ indices_to_remove \subseteq Candidates(AfterLargeStep)
        /\ merged_content = Pick(content, kept)

\* process_code_files has returned with both policies on a content where
\* the merged lines hold more candidates than the lines left by
\* remove_large_comments, enough to change the number removed
C30_Witness ==
    /\ pc = "proc_done"
    /\ remove_large_comments_flag
    /\ remove_comments_ratio > 0
    /\ Len(AfterLargeStep) < Len(content)
    /\ Cardinality(Candidates(content)) \div remove_comments_ratio
          > Cardinality(Candidates(AfterLargeStep)) \div remove_comments_ratio
    /\ Len(AfterLargeStep) - Len(merged_content)
          = Cardinality(Candidates(AfterLargeStep)) \div remove_comments_ratio

====
